---- MODULE Spec2Model ----
(***************************************************************************)
(* The GCRA decision engine of governor (src/gcra.rs): the single-cell and *)
(* the batch admission test over one stored "theoretical arrival time"     *)
(* (tat) per key, and the NotUntil value a rejection carries.              *)
(*                                                                         *)
(* Time is counted in whole replenishment ticks.  A clock instant (the     *)
(* type P of the source) is a natural number; a Nanos value is a natural   *)
(* number of ticks elapsed since the reference origin `start`.             *)
(***************************************************************************)
EXTENDS Integers, Sequences, FiniteSets

\* ---------------------------------------------------------------- bounds
MaxTime == 3
MaxBurst == 2
MaxInterval == 2
MaxStart == 1
MaxExcess == 1
NumCallers == 3
MaxRaceTime == 1

Keys == {"k1", "k2"}
Callers == 1..NumCallers
Instants == 0..MaxTime
\* the quota of the documented examples: one cell per tick (t = 1 s), bursts
\* of five
ExampleQuota == [replenish_1_per |-> 1, max_burst |-> 5]
Quotas ==
    [replenish_1_per : 1..MaxInterval, max_burst : 1..MaxBurst] \cup {ExampleQuota}
\* batch sizes asked for: up to MaxExcess more than the quota's burst
BatchSizes(q) == 1..(q.max_burst + MaxExcess)
\* instants a caller may ask wait_time_from about
FromInstants == 0..(MaxTime + MaxStart + MaxInterval + 1)

VARIABLES
    quota,      \* the Quota the limiter was built from
    limiter,    \* the Gcra value: [t, tau]
    start,      \* the reference origin (an instant): 0 or MaxStart
    clock,      \* the current instant
    keys,       \* the keys the callers ask about
    store,      \* the state store: key -> Option<Nanos>
    last,       \* the last completed call and what it returned
    pending,    \* the latest rejection that no admission on its key has followed
    admitted,   \* history: key -> its first admission, and the cells admitted
                \* at each elapsed time
    calls,      \* race: caller -> its call in flight
    log         \* race: the admissions in the order they were installed

vars == <<quota, limiter, start, clock, keys, store, last, pending, admitted, calls, log>>

\* ------------------------------------------------------- Option<Nanos>
None == {}
Some(x) == {x}
is_some(o) == o # {}
unwrap(o) == CHOOSE x \in o : TRUE
unwrap_or_else(o, d) == IF o = {} THEN d ELSE CHOOSE x \in o : TRUE

\* ------------------------------------------------- Nanos and instants
Max(a, b) == IF a >= b THEN a ELSE b
Min(a, b) == IF a <= b THEN a ELSE b

\* Nanos::saturating_sub
saturating_sub(a, b) == IF a >= b THEN a - b ELSE 0

\* clock::Reference::duration_since: the time from `earlier` to p, zero if
\* `earlier` is later than p
duration_since(p, earlier) == saturating_sub(p, earlier)

\* ------------------------------------------------------------- Gcra
Gcra_new(q) ==
    [tau |-> q.replenish_1_per * q.max_burst, t |-> q.replenish_1_per]

starting_state_plus_tau(g, t0) == t0 + g.t + g.tau
starting_state_now(g, t0) == t0
starting_state(g, t0) == t0 + g.t

\* The results of the two entry points.
Ok(new_tat) == [kind |-> "Ok", tat |-> new_tat, n |-> 0, cap |-> 0]
NotUntil(earliest_time) ==
    [kind |-> "NotUntil", tat |-> earliest_time, n |-> 0, cap |-> 0]
BatchNonConforming(n, earliest_time) ==
    [kind |-> "BatchNonConforming", tat |-> earliest_time, n |-> n, cap |-> 0]
InsufficientCapacity(cap) ==
    [kind |-> "InsufficientCapacity", tat |-> 0, n |-> 0, cap |-> cap]

\* The closure test_and_update hands to measure_and_replace.
single_no_max(g, tat_opt, t0) ==
    LET tat == unwrap_or_else(tat_opt, starting_state(g, t0))
        earliest_time == saturating_sub(tat, g.tau)
    IN  IF t0 < earliest_time
        THEN NotUntil(earliest_time)
        ELSE Ok(t0 + g.t)
single_rejects_at_equal(g, tat_opt, t0) ==
    LET tat == unwrap_or_else(tat_opt, starting_state(g, t0))
        earliest_time == saturating_sub(tat, g.tau)
    IN  IF t0 <= earliest_time
        THEN NotUntil(earliest_time)
        ELSE Ok(Max(tat, t0) + g.t)
single_decide(g, tat_opt, t0) ==
    LET tat == unwrap_or_else(tat_opt, starting_state(g, t0))
        earliest_time == saturating_sub(tat, g.tau)
    IN  IF t0 < earliest_time
        THEN NotUntil(earliest_time)
        ELSE Ok(Max(tat, t0) + g.t)

\* The closure test_n_all_and_update hands to measure_and_replace.
batch_reports_single(g, n, tat_opt, t0) ==
    LET additional_weight == g.t * (n - 1)
        tat == unwrap_or_else(tat_opt, starting_state(g, t0))
        earliest_time == saturating_sub(tat + additional_weight, g.tau)
    IN  IF t0 < earliest_time
        THEN BatchNonConforming(n, saturating_sub(tat, g.tau))
        ELSE Ok(Max(tat, t0) + g.t + additional_weight)
batch_forgets_first_cell(g, n, tat_opt, t0) ==
    LET additional_weight == g.t * (n - 1)
        tat == unwrap_or_else(tat_opt, starting_state(g, t0))
        earliest_time == saturating_sub(tat + additional_weight, g.tau)
    IN  IF t0 < earliest_time
        THEN BatchNonConforming(n, earliest_time)
        ELSE Ok(Max(tat, t0) + additional_weight)
batch_tests_one_cell(g, n, tat_opt, t0) ==
    LET additional_weight == g.t * (n - 1)
        tat == unwrap_or_else(tat_opt, starting_state(g, t0))
        earliest_time == saturating_sub(tat, g.tau)
    IN  IF t0 < earliest_time
        THEN BatchNonConforming(n, earliest_time)
        ELSE Ok(Max(tat, t0) + g.t + additional_weight)
batch_decide(g, n, tat_opt, t0) ==
    LET additional_weight == g.t * (n - 1)
        tat == unwrap_or_else(tat_opt, starting_state(g, t0))
        earliest_time == saturating_sub(tat + additional_weight, g.tau)
    IN  IF t0 < earliest_time
        THEN BatchNonConforming(n, earliest_time)
        ELSE Ok(Max(tat, t0) + g.t + additional_weight)

\* StateStore::measure_and_replace, given the closure's result r on the
\* stored value: installs the new value iff the closure returned Ok.
measure_and_replace(st, key, r) ==
    [result |-> r,
     store |-> IF r.kind = "Ok" THEN [st EXCEPT ![key] = Some(r.tat)] ELSE st,
     accessed |-> TRUE]

\* Gcra::test_and_update: the result and the store it leaves.
test_and_update_stores_rejection(g, st, key, origin, now) ==
    LET t0 == duration_since(now, origin)
        r == single_decide(g, st[key], t0)
    IN  [result |-> r, store |-> [st EXCEPT ![key] = Some(r.tat)], accessed |-> TRUE]
test_and_update_one_state(g, st, key, origin, now) ==
    LET t0 == duration_since(now, origin)
    IN  measure_and_replace(st, "k1", single_decide(g, st["k1"], t0))
test_and_update(g, st, key, origin, now) ==
    LET t0 == duration_since(now, origin)
    IN  measure_and_replace(st, key, single_decide(g, st[key], t0))

\* Gcra::test_n_all_and_update: the result and the store it leaves.
test_n_all_guard_without_first_cell(g, st, key, n, origin, now) ==
    LET t0 == duration_since(now, origin)
        additional_weight == g.t * (n - 1)
    IN  IF additional_weight > g.tau
        THEN [result |-> InsufficientCapacity(g.tau \div g.t),
              store |-> st, accessed |-> FALSE]
        ELSE measure_and_replace(st, key, batch_decide(g, n, st[key], t0))
test_n_all_and_update(g, st, key, n, origin, now) ==
    LET t0 == duration_since(now, origin)
        additional_weight == g.t * (n - 1)
    IN  IF additional_weight + g.t > g.tau
        THEN [result |-> InsufficientCapacity(g.tau \div g.t),
              store |-> st, accessed |-> FALSE]
        ELSE measure_and_replace(st, key, batch_decide(g, n, st[key], t0))

\* ---------------------------------------------------------- NotUntil
earliest_possible_without_origin(nu, origin) == nu.tat
earliest_possible(nu, origin) == origin + nu.tat

wait_time_from_reversed(nu, origin, from) ==
    LET earliest == earliest_possible(nu, origin)
    IN  duration_since(from, Min(earliest, from))
wait_time_from_origin(nu, origin, from) ==
    LET earliest == earliest_possible(nu, origin)
    IN  duration_since(earliest, Min(earliest, origin))
wait_time_from(nu, origin, from) ==
    LET earliest == earliest_possible(nu, origin)
    IN  duration_since(earliest, Min(earliest, from))

\* Display for NotUntil: the instant "rate-limited until ..." names
fmt(nu, origin) == origin + nu.tat

\* ------------------------------------------------------------ state
Rejected(r) == r.kind \in {"NotUntil", "BatchNonConforming"}

NoCall ==
    [op |-> "none", key |-> "", n |-> 0, now |-> 0, t0 |-> 0, pre |-> None,
     result |-> Ok(0), accessed |-> FALSE, repeat |-> None, repeat_now |-> None]

\* the call record of a completed call
CallRecord(op, key, n, now, out) ==
    [op |-> op, key |-> key, n |-> n, now |-> now,
     t0 |-> duration_since(now, start), pre |-> store[key],
     result |-> out.result, accessed |-> out.accessed,
     repeat |-> IF pending # None /\ unwrap(pending).op = op
                   /\ unwrap(pending).key = key /\ unwrap(pending).n = n
                THEN Some(unwrap(pending).earliest) ELSE None,
     repeat_now |-> IF pending # None /\ unwrap(pending).op = op
                       /\ unwrap(pending).key = key /\ unwrap(pending).n = n
                    THEN Some(unwrap(pending).now) ELSE None]

\* the rejection a caller may still act on after a call on `key` at `now`
NextPending(key, n, now, out) ==
    IF Rejected(out.result)
    THEN Some([op |-> IF out.result.kind = "NotUntil" THEN "test_and_update"
                              ELSE "test_n_all_and_update",
               key |-> key, n |-> n, now |-> now,
               earliest |-> earliest_possible(out.result, start)])
    ELSE IF out.result.kind = "Ok" /\ pending # None /\ unwrap(pending).key = key
         THEN None
         ELSE pending

\* the admission history after a call for n cells on `key`
NextAdmitted(key, n, now, out) ==
    LET t0 == duration_since(now, start)
    IN  IF out.result.kind = "Ok"
        THEN [admitted EXCEPT
                ![key].first = IF @ = None THEN Some([n |-> n, t0 |-> t0]) ELSE @,
                ![key].at[t0] = @ + n]
        ELSE admitted

\* the admission log after a call for n cells on `key`
NextLog(key, n, now, out) ==
    IF out.result.kind = "Ok"
    THEN Append(log, [key |-> key, n |-> n, t0 |-> duration_since(now, start),
                      pre |-> store[key], post |-> out.result.tat])
    ELSE log

Idle == [pc |-> "idle", key |-> "", now |-> 0, result |-> Ok(0)]

Init ==
    /\ quota \in Quotas
    /\ limiter = Gcra_new(quota)
    /\ start \in {0, MaxStart}
    /\ clock = 0
    /\ keys = {"k1"}
    /\ store = [k \in Keys |-> None]
    /\ last = NoCall
    /\ pending = None
    /\ admitted = [k \in Keys |-> [first |-> None, at |-> [e \in Instants |-> 0]]]
    /\ calls = [c \in Callers |-> Idle]
    /\ log = <<>>

\* the clock moves on
Tick ==
    /\ clock < MaxTime
    /\ clock' = clock + 1
    /\ UNCHANGED <<quota, limiter, start, keys, store, last, pending, admitted, calls, log>>

\* a caller checks one cell on key k at the current instant
TestAndUpdate(k) ==
    LET out == test_and_update(limiter, store, k, start, clock)
    IN  /\ store' = out.store
        /\ last' = CallRecord("test_and_update", k, 1, clock, out)
        /\ pending' = NextPending(k, 1, clock, out)
        /\ admitted' = NextAdmitted(k, 1, clock, out)
        /\ UNCHANGED <<quota, limiter, start, clock, keys, calls, log>>

\* a caller checks n cells on key k at the current instant
TestNAllAndUpdate(k, n) ==
    LET out == test_n_all_and_update(limiter, store, k, n, start, clock)
    IN  /\ store' = out.store
        /\ last' = CallRecord("test_n_all_and_update", k, n, clock, out)
        /\ pending' = NextPending(k, n, clock, out)
        /\ admitted' = NextAdmitted(k, n, clock, out)
        /\ UNCHANGED <<quota, limiter, start, clock, keys, calls, log>>

Next ==
    \/ Tick
    \/ \E k \in keys : TestAndUpdate(k)
    \/ \E k \in keys, n \in BatchSizes(quota) : TestNAllAndUpdate(k, n)

Spec == Init /\ [][Next]_vars

\* The same calls, made on every key of the store, under the quota of one
\* cell per tick and bursts of two.
InitKeys ==
    /\ quota = [replenish_1_per |-> 1, max_burst |-> 2]
    /\ limiter = Gcra_new(quota)
    /\ start = 0
    /\ clock = 0
    /\ keys = Keys
    /\ store = [k \in Keys |-> None]
    /\ last = NoCall
    /\ pending = None
    /\ admitted = [k \in Keys |-> [first |-> None, at |-> [e \in Instants |-> 0]]]
    /\ calls = [c \in Callers |-> Idle]
    /\ log = <<>>

\* the clock moves on, over the few instants the keys are compared at
KeysTick ==
    /\ clock < MaxRaceTime
    /\ clock' = clock + 1
    /\ UNCHANGED <<quota, limiter, start, keys, store, last, pending, admitted, calls, log>>

KeysNext ==
    \/ KeysTick
    \/ \E k \in keys : TestAndUpdate(k)
    \/ \E k \in keys, n \in BatchSizes(quota) : TestNAllAndUpdate(k, n)

SpecKeys == InitKeys /\ [][KeysNext]_vars

\* ------------------------------------------------------------- race
\* Concurrent callers of test_and_update.  A caller reads the clock and
\* passes the reading in; the read-decide-write on the store is the one
\* atomic measure_and_replace step, taken at any later moment.

\* the clock moves on while calls are in flight
RaceTick ==
    /\ clock < MaxRaceTime
    /\ clock' = clock + 1
    /\ UNCHANGED <<quota, limiter, start, keys, store, last, pending, admitted, calls, log>>

\* caller c reads the clock and calls test_and_update on key k
RaceCall(c, k) ==
    /\ calls[c].pc = "idle"
    /\ calls' = [calls EXCEPT ![c] = [pc |-> "called", key |-> k, now |-> clock,
                                      result |-> Ok(0)]]
    /\ UNCHANGED <<quota, limiter, start, clock, keys, store, last, pending,
                   admitted, log>>

\* the atomic update of caller c's call
RaceUpdate(c) ==
    /\ calls[c].pc = "called"
    /\ LET k == calls[c].key
           now == calls[c].now
           out == test_and_update(limiter, store, k, start, now)
       IN  /\ store' = out.store
           /\ calls' = [calls EXCEPT ![c].pc = "done", ![c].result = out.result]
           /\ admitted' = NextAdmitted(k, 1, now, out)
           /\ log' = NextLog(k, 1, now, out)
    /\ UNCHANGED <<quota, limiter, start, clock, keys, last, pending>>

RaceNext ==
    \/ RaceTick
    \/ \E c \in Callers, k \in keys : RaceCall(c, k)
    \/ \E c \in Callers : RaceUpdate(c)

SpecRace == Init /\ [][RaceNext]_vars

\* ============================================================ claims

\* ----------------------------------------------------------------- C1
Succeeded == {c \in Callers : calls[c].pc = "done" /\ calls[c].result.kind = "Ok"}
Failed == {c \in Callers : calls[c].pc = "done" /\ calls[c].result.kind = "NotUntil"}

\* every caller has called and been answered, all on one key with one `now`
AllAtOnce ==
    /\ \A c \in Callers : calls[c].pc = "done"
    /\ \A c, d \in Callers : calls[c].key = calls[d].key /\ calls[c].now = calls[d].now

\* C1: when C callers have each checked one cell on one key that was unseen
\* before them, all with the same now, and max_burst = B < C, then exactly
\* B of the calls succeeded and exactly C - B failed with NotUntil, whatever
\* the order of the atomic updates.
C1_ExactlyBurstSucceed ==
    (AllAtOnce /\ quota.max_burst < NumCallers)
        => /\ Cardinality(Succeeded) = quota.max_burst
           /\ Cardinality(Failed) = NumCallers - quota.max_burst

C1_Witness ==
    /\ AllAtOnce
    /\ quota.max_burst < NumCallers
    /\ quota.max_burst > 1
    /\ Failed # {}
    /\ \E c \in Failed, d \in Succeeded : c < d

\* ----------------------------------------------------------------- C2
KeyLog(k) == SelectSeq(log, LAMBDA e : e.key = k)

\* the tat values a sequential run of single-cell calls at times t0s installs
RECURSIVE Sequential(_, _)
Sequential(tat_opt, t0s) ==
    IF t0s = <<>> THEN <<>>
    ELSE LET r == single_decide(limiter, tat_opt, Head(t0s))
         IN  IF r.kind = "Ok"
             THEN <<r.tat>> \o Sequential(Some(r.tat), Tail(t0s))
             ELSE Sequential(tat_opt, Tail(t0s))

\* C2: no update is lost.  On each key the successful admissions form a
\* chain: each was computed from the value the one before it installed (so no
\* two from the same pre-update tat), the store holds the last value of the
\* chain, the value stored after the i-th admission and k more is at least
\* the tat the i-th was computed from plus (k + 1) * t, and the chain is what
\* the calls give when run one after the other in that order.
C2_NoLostUpdate ==
    \A k \in Keys :
        LET kl == KeyLog(k)
            len == Len(kl)
            tat(i) == unwrap_or_else(kl[i].pre, starting_state(limiter, kl[i].t0))
        IN  /\ \A i \in 1..len :
                  /\ kl[i].pre = IF i = 1 THEN None ELSE Some(kl[i - 1].post)
                  /\ unwrap(store[k]) >= tat(i) + (len - i + 1) * limiter.t
            /\ \A i, j \in 1..len : i # j => kl[i].pre # kl[j].pre
            /\ store[k] = IF len = 0 THEN None ELSE Some(kl[len].post)
            /\ Sequential(None, [i \in 1..len |-> kl[i].t0])
                  = [i \in 1..len |-> kl[i].post]

\* two admissions installed, the later one by a call with the earlier now
C2_Witness ==
    /\ Len(KeyLog("k1")) >= 2
    /\ KeyLog("k1")[2].t0 < KeyLog("k1")[1].t0

\* ----------------------------------------------------------------- C3
\* the tat a call at elapsed time t0 works from when it finds `pre` stored
WorkingTat(pre, t0) == unwrap_or_else(pre, starting_state(limiter, t0))

\* C3: in every step, with the clock never running backward, a stored tat
\* stays stored and does not decrease; a stored value changes only in a call
\* on that key that returned success, and then it becomes strictly larger
\* than the tat the call worked from: for a single cell exactly
\* max(tat, now_elapsed) + t.
C3_TatNeverMovesBackward ==
    [][\A k \in Keys :
          /\ clock' >= clock
          /\ is_some(store[k]) =>
                is_some(store'[k]) /\ unwrap(store'[k]) >= unwrap(store[k])
          /\ store'[k] # store[k] =>
                /\ last'.key = k
                /\ last'.result.kind = "Ok"
                /\ last'.pre = store[k]
                /\ unwrap(store'[k]) > WorkingTat(store[k], last'.t0)
                /\ last'.op = "test_and_update" =>
                      unwrap(store'[k])
                        = Max(WorkingTat(store[k], last'.t0), last'.t0) + limiter.t
          /\ (last' # last /\ last'.key = k /\ last'.result.kind = "Ok") =>
                store'[k] # store[k]
      ]_vars

\* a single cell admitted on a key whose stored tat lies in the past
C3_Witness ==
    /\ last.op = "test_and_update"
    /\ last.result.kind = "Ok"
    /\ is_some(last.pre)
    /\ unwrap(last.pre) < last.t0
    /\ store[last.key] = Some(last.t0 + limiter.t)

\* ----------------------------------------------------------------- C4
\* C4: after a call that returned NotUntil, BatchNonConforming or
\* InsufficientCapacity, the store holds for the call's key exactly what it
\* held before the call, absent included; a key no call was admitted on has
\* no stored value.
C4_RejectionLeavesStore ==
    (last.op # "none" /\ last.result.kind # "Ok") =>
        /\ store[last.key] = last.pre
        /\ \A k \in Keys :
              store[k] = IF admitted[k].first = None THEN None ELSE store[k]

C4_Witness ==
    /\ last.result.kind = "NotUntil"
    /\ is_some(last.pre)
    /\ store[last.key] = last.pre

\* ----------------------------------------------------------------- C5
\* C5: test_n_all_and_update returns InsufficientCapacity exactly when
\* n > max_burst, in every state and at every now; the value carried is
\* max_burst (the example quota and n = 6 give 5); the store is then not
\* accessed; and with n <= max_burst a failure is BatchNonConforming
\* carrying n.
C5_CapacityIsStatic ==
    /\ \A k \in keys, n \in BatchSizes(quota), now \in Instants :
          \A out \in {test_n_all_and_update(limiter, store, k, n, start, now)} :
              /\ out.result.kind = "InsufficientCapacity" <=> n > quota.max_burst
              /\ n > quota.max_burst =>
                    /\ out.result = InsufficientCapacity(quota.max_burst)
                    /\ ~out.accessed
                    /\ out.store = store
              /\ (n <= quota.max_burst /\ out.result.kind # "Ok") =>
                    out.result.kind = "BatchNonConforming" /\ out.result.n = n
    /\ last.op = "test_n_all_and_update" =>
          /\ last.result.kind = "InsufficientCapacity" <=> last.n > quota.max_burst
          /\ last.n > quota.max_burst =>
                /\ last.result.cap = quota.max_burst
                /\ ~last.accessed
                /\ store[last.key] = last.pre
          /\ (quota = ExampleQuota /\ last.n = 6) =>
                last.result = InsufficientCapacity(5)

C5_Witness ==
    /\ quota = ExampleQuota
    /\ last.op = "test_n_all_and_update"
    /\ last.n = 6
    /\ last.result = InsufficientCapacity(5)
    /\ is_some(last.pre)
    /\ last.t0 > unwrap(last.pre)

\* ----------------------------------------------------------------- C6
\* cells admitted on key k over all times
RECURSIVE SumAt(_, _)
SumAt(f, S) ==
    IF S = {} THEN 0
    ELSE LET e == CHOOSE x \in S : TRUE IN f[e] + SumAt(f, S \ {e})
AdmittedCells(k) == SumAt(admitted[k].at, Instants)

\* cells admitted on the last call's key before the last call
AdmittedBeforeLast ==
    AdmittedCells(last.key) - (IF last.result.kind = "Ok" THEN last.n ELSE 0)

\* the last call asked for all five cells of the example quota on an unseen key
FullBatchOnUnseen ==
    /\ quota = ExampleQuota
    /\ last.op = "test_n_all_and_update"
    /\ last.n = 5
    /\ last.pre = None

\* the last call is a single cell at the instant at which a batch of five, the
\* only admission so far, found the key unseen
SingleAfterFullBatch ==
    /\ quota = ExampleQuota
    /\ last.op = "test_and_update"
    /\ admitted[last.key].first = Some([n |-> 5, t0 |-> last.t0])
    /\ AdmittedBeforeLast = 5

\* C6 as claimed: the batch leaves tat = now_elapsed + 5 and the single cell
\* after it is rejected with earliest_time = now_elapsed.
C6_Original ==
    /\ FullBatchOnUnseen =>
          last.result.kind = "Ok" /\ store[last.key] = Some(last.t0 + 5)
    /\ SingleAfterFullBatch =>
          last.result = NotUntil(last.t0)

\* C6 (amended): with t = 1, max_burst = 5, an unseen key and n = 5 the batch
\* succeeds and leaves tat = now_elapsed + 6 (the starting state now_elapsed
\* + t, plus 5 t); a single cell at the same instant is then rejected with
\* earliest_time = now_elapsed + 1.
C6_Amended ==
    /\ FullBatchOnUnseen =>
          last.result.kind = "Ok" /\ store[last.key] = Some(last.t0 + 6)
    /\ SingleAfterFullBatch =>
          /\ last.pre = Some(last.t0 + 6)
          /\ last.result = NotUntil(last.t0 + 1)
          /\ store[last.key] = last.pre

C6_Witness ==
    /\ SingleAfterFullBatch
    /\ last.t0 > 0
    /\ last.result.kind = "NotUntil"

\* ----------------------------------------------------------------- C7
\* the last call is a single cell on a key that was unseen until max_burst
\* cells were admitted on it, all at the elapsed time of this call
SingleAfterFullBurst ==
    /\ last.op = "test_and_update"
    /\ admitted[last.key].first # None
    /\ unwrap(admitted[last.key].first).t0 = last.t0
    /\ AdmittedBeforeLast = quota.max_burst
    /\ admitted[last.key].at[last.t0] = AdmittedCells(last.key)

\* C7: a single cell asked for at the instant at which max_burst cells were
\* admitted on a key unseen before is rejected; its earliest_possible, and the
\* instant its rendering names, is start + now_elapsed + t.
C7_FullBurstThenOneInterval ==
    SingleAfterFullBurst =>
        /\ last.result.kind = "NotUntil"
        /\ earliest_possible(last.result, start) = start + last.t0 + limiter.t
        /\ fmt(last.result, start) = start + last.t0 + limiter.t

\* the case of test::notuntil_impls (one per tick, second check at time 0),
\* and a case with the origin after instant 0 and a burst of several cells
C7_Witness ==
    /\ SingleAfterFullBurst
    /\ quota = [replenish_1_per |-> 1, max_burst |-> 1]
    /\ start = 0
    /\ last.now = 0
    /\ fmt(last.result, start) = 1

\* the same with the origin after instant 0 and a burst of several cells
C7_WitnessBurst ==
    /\ SingleAfterFullBurst
    /\ quota.max_burst > 1
    /\ start > 0
    /\ last.t0 > 0

\* ----------------------------------------------------------------- C8
\* C8: a single cell asked for on a key with no stored state is admitted, at
\* every instant (before, at or after the origin) and for every quota; and
\* the earliest_time of a call, on any stored state, is never below zero.
C8_FirstCellAdmitted ==
    /\ (last.op = "test_and_update" /\ last.pre = None) => last.result.kind = "Ok"
    /\ \A k \in keys, now \in Instants :
          LET t0 == duration_since(now, start)
              out == test_and_update(limiter, store, k, start, now)
          IN  /\ store[k] = None => out.result.kind = "Ok"
              /\ saturating_sub(WorkingTat(store[k], t0), limiter.tau) >= 0
              /\ out.result.kind = "NotUntil" => out.result.tat >= 0
    /\ Rejected(last.result) => last.result.tat >= 0

\* the first cell of a key, asked for at now = 0, where tat - tau saturates
C8_Witness ==
    /\ last.op = "test_and_update"
    /\ last.pre = None
    /\ last.now = 0
    /\ last.t0 = 0
    /\ starting_state(limiter, last.t0) < limiter.tau
    /\ last.result.kind = "Ok"

\* ----------------------------------------------------------------- C9
\* the request of the pending rejection, made again at instant `now`
Repeat(p, now) ==
    IF p.n = 1 /\ p.op = "test_and_update"
    THEN test_and_update(limiter, store, p.key, start, now)
    ELSE test_n_all_and_update(limiter, store, p.key, p.n, start, now)

\* C9: while no admission on its key has followed a rejection that carries
\* earliest_possible = E, the same request conforms at now = E and at every
\* later instant, and is rejected at every now < E; and a call that did
\* repeat such a request was admitted exactly if its now was at least E.
C9_EarliestIsExact ==
    /\ pending # None =>
          \A now \in FromInstants :
              Repeat(unwrap(pending), now).result.kind = "Ok"
                  <=> now >= unwrap(pending).earliest
    /\ last.repeat # None =>
          (last.result.kind = "Ok" <=> last.now >= unwrap(last.repeat))

\* a rejected batch, asked for again exactly at E, admitted
C9_Witness ==
    /\ last.repeat # None
    /\ last.op = "test_n_all_and_update"
    /\ last.n > 1
    /\ last.now = unwrap(last.repeat)
    /\ last.result.kind = "Ok"

\* a repeat before E, rejected again
C9_WitnessEarly ==
    /\ last.repeat # None
    /\ last.now < unwrap(last.repeat)
    /\ last.now > 0
    /\ last.result.kind = "NotUntil"

\* ---------------------------------------------------------------- C10
\* C10: for the NotUntil of a rejection, with earliest_possible = E,
\* wait_time_from(from) is E - from for every from < E and zero for every
\* from >= E; it is never negative.
C10_WaitTime ==
    Rejected(last.result) =>
        LET E == earliest_possible(last.result, start)
        IN  \A from \in FromInstants :
                /\ from < E => wait_time_from(last.result, start, from) = E - from
                /\ from >= E => wait_time_from(last.result, start, from) = 0
                /\ wait_time_from(last.result, start, from) >= 0

C10_Witness ==
    /\ Rejected(last.result)
    /\ start > 0
    /\ \E from \in FromInstants :
          /\ from < earliest_possible(last.result, start)
          /\ wait_time_from(last.result, start, from) > 1
    /\ \E from \in FromInstants : from > earliest_possible(last.result, start)

\* ---------------------------------------------------------------- C11
\* C11: a call for a batch of n <= max_burst cells either succeeds and
\* installs max(tat, now_elapsed) + n * t, tat being the stored value or the
\* starting state of an unseen key, or fails and leaves the stored value as
\* it was: the store never moves by the cost of some but not all of the n
\* cells, and the cells counted as admitted are n or none.
C11_AllOrNothing ==
    (last.op = "test_n_all_and_update" /\ last.n <= quota.max_burst) =>
        LET tat == WorkingTat(last.pre, last.t0)
        IN  /\ last.result.kind \in {"Ok", "BatchNonConforming"}
            /\ last.result.kind = "Ok" =>
                  store[last.key] = Some(Max(tat, last.t0) + last.n * limiter.t)
            /\ last.result.kind # "Ok" => store[last.key] = last.pre
            /\ \A j \in 1..(last.n - 1) :
                  store[last.key] # Some(Max(tat, last.t0) + j * limiter.t)
            /\ last.result.kind = "BatchNonConforming" => last.result.n = last.n

\* a batch of several cells admitted on a key with a stored tat still ahead
C11_Witness ==
    /\ last.op = "test_n_all_and_update"
    /\ last.n > 1
    /\ last.result.kind = "Ok"
    /\ is_some(last.pre)
    /\ unwrap(last.pre) > last.t0

\* the same batch refused
C11_WitnessRefused ==
    /\ last.op = "test_n_all_and_update"
    /\ last.n > 1
    /\ last.result.kind = "BatchNonConforming"

\* ---------------------------------------------------------------- C12
\* C12: a rejected single-cell call reports earliest_time = tat
\* saturating_sub tau of the stored tat; a rejected single-cell call that
\* follows a rejected one at the same now, with no admission on the key
\* between them, reports the same earliest_time; and the call made once more
\* in the state it leaves is rejected with that earliest_time again.
C12_IdempotentRejection ==
    (last.op = "test_and_update" /\ last.result.kind = "NotUntil") =>
        /\ is_some(last.pre)
        /\ last.result.tat = saturating_sub(unwrap(last.pre), limiter.tau)
        /\ (last.repeat_now = Some(last.now)) =>
              earliest_possible(last.result, start) = unwrap(last.repeat)
        /\ test_and_update(limiter, store, last.key, start, last.now).result
              = last.result

C12_Witness ==
    /\ last.op = "test_and_update"
    /\ last.result.kind = "NotUntil"
    /\ last.repeat_now = Some(last.now)
    /\ last.now > 0

\* ---------------------------------------------------------------- C13
\* the store with every key but k forgotten
OnlyKey(k) == [j \in Keys |-> IF j = k THEN store[j] ELSE None]

\* the store with every key but k holding the value v
OthersAt(k, v) == [j \in Keys |-> IF j = k THEN store[j] ELSE Some(v)]

\* the call of the record c, made on the store st
Again(c, st) ==
    IF c.op = "test_and_update"
    THEN test_and_update(limiter, st, c.key, start, c.now)
    ELSE test_n_all_and_update(limiter, st, c.key, c.n, start, c.now)

\* C13: in every step a stored value changes only for the key of the call
\* made in that step, and the result of a call on key k, and the value it
\* leaves for k, are those of the same call on a store in which the other
\* keys are absent, or hold any other value.
C13_KeysIndependent ==
    [][/\ \A k \in Keys : store'[k] # store[k] => last'.key = k
       /\ (last' # last \/ store' # store) =>
             /\ \A j \in Keys \ {last'.key} : store'[j] = store[j]
             /\ last'.pre = store[last'.key]
             /\ Again(last', OnlyKey(last'.key)).result = last'.result
             /\ Again(last', OnlyKey(last'.key)).store[last'.key]
                   = store'[last'.key]
             /\ \A v \in Instants :
                   /\ Again(last', OthersAt(last'.key, v)).result = last'.result
                   /\ Again(last', OthersAt(last'.key, v)).store[last'.key]
                         = store'[last'.key]
      ]_vars

\* a call on k2 rejected while k1, charged less, would still admit a cell
C13_Witness ==
    /\ last.key = "k2"
    /\ last.result.kind = "NotUntil"
    /\ is_some(store["k1"])
    /\ store["k1"] # store["k2"]
    /\ test_and_update(limiter, store, "k1", start, last.now).result.kind = "Ok"

\* ---------------------------------------------------------------- C14
\* cells admitted on key k at the elapsed times a..b
AdmittedWithin(k, a, b) == SumAt(admitted[k].at, a..b)

\* C14: on every key, in every window of elapsed time a..b, at most
\* max_burst + floor((b - a) / t) cells have been admitted; at one single
\* elapsed time, at most max_burst.
C14_BurstLimit ==
    \A k \in keys, a \in Instants, b \in Instants :
        a <= b =>
            AdmittedWithin(k, a, b)
                <= quota.max_burst + ((b - a) \div limiter.t)

\* ---------------------------------------------------------------- C15
\* n single cells asked for one after the other at instant `now`, from the
\* stored value tat_opt of one key: were all admitted, and the value left
RECURSIVE Singles(_, _, _)
Singles(tat_opt, t0, n) ==
    IF n = 0 THEN [ok |-> TRUE, tat |-> tat_opt]
    ELSE LET r == single_decide(limiter, tat_opt, t0)
         IN  IF r.kind = "Ok"
             THEN Singles(Some(r.tat), t0, n - 1)
             ELSE [ok |-> FALSE, tat |-> tat_opt]

\* C15: in every state, for every key and every n from 1 to max_burst, a
\* batch of n asked for at the current instant succeeds exactly if n single
\* cells asked for one after the other at that instant all succeed, and then
\* leaves the tat they leave; so did the last call, if it was such a batch.
\* (Every stored value is met at every later instant: Tick keeps the store.)
C15_BatchIsSingles ==
    /\ \A k \in keys, n \in 1..quota.max_burst :
          \A out \in {test_n_all_and_update(limiter, store, k, n, start, clock)},
             one \in {Singles(store[k], duration_since(clock, start), n)} :
              /\ out.result.kind = "Ok" <=> one.ok
              /\ out.result.kind = "Ok" => out.store[k] = one.tat
    /\ (last.op = "test_n_all_and_update" /\ last.n <= quota.max_burst) =>
          /\ last.result.kind = "Ok" <=> Singles(last.pre, last.t0, last.n).ok
          /\ last.result.kind = "Ok" =>
                store[last.key] = Singles(last.pre, last.t0, last.n).tat

\* a batch of several cells admitted on a key whose stored tat lies in the past
C15_Witness ==
    /\ last.op = "test_n_all_and_update"
    /\ last.n > 1
    /\ last.result.kind = "Ok"
    /\ is_some(last.pre)
    /\ unwrap(last.pre) < last.t0

\* a batch refused where the first of the single cells would be admitted
C15_WitnessRefused ==
    /\ last.op = "test_n_all_and_update"
    /\ last.n > 1
    /\ last.result.kind = "BatchNonConforming"
    /\ single_decide(limiter, last.pre, last.t0).kind = "Ok"

\* ---------------------------------------------------------------- C16
\* C16: a NotUntil or BatchNonConforming returned to a call made at now
\* carries an earliest_time above now_elapsed; its earliest_possible is
\* later than now and its wait_time_from(now) is positive.  So for the last
\* call, and for every call that could be made now in the state reached.
C16_RejectionInFuture ==
    /\ Rejected(last.result) =>
          /\ last.result.tat > last.t0
          /\ earliest_possible(last.result, start) > last.now
          /\ wait_time_from(last.result, start, last.now) > 0
    /\ \A k \in keys, n \in BatchSizes(quota) :
          \A r \in {test_and_update(limiter, store, k, start, clock).result,
                     test_n_all_and_update(limiter, store, k, n, start, clock).result} :
              Rejected(r) =>
                  /\ r.tat > duration_since(clock, start)
                  /\ earliest_possible(r, start) > clock
                  /\ wait_time_from(r, start, clock) > 0

\* a rejection that names the very next instant, with the origin after 0
C16_Witness ==
    /\ Rejected(last.result)
    /\ start > 0
    /\ last.now >= start
    /\ earliest_possible(last.result, start) = last.now + 1
    /\ wait_time_from(last.result, start, last.now) = 1

\* ---------------------------------------------------------------- C17
\* C17 as claimed: a single cell rejected at now reports wait_time_from(now)
\* <= t, a batch of n <= max_burst cells rejected at now reports
\* wait_time_from(now) <= n * t, at whatever instant the call is made; and
\* while no admission on the key has followed the rejection, the same request
\* made at the reported instant is admitted.
C17_Original ==
    /\ Rejected(last.result) =>
          wait_time_from(last.result, start, last.now) <= last.n * limiter.t
    /\ pending # None =>
          Repeat(unwrap(pending), unwrap(pending).earliest).result.kind = "Ok"
    /\ last.repeat = Some(last.now) => last.result.kind = "Ok"

\* C17 (amended): the two bounds hold for a call made at or after the
\* reference origin (before it now_elapsed is zero and the wait is longer by
\* start - now); the retry at the reported instant is admitted as claimed.
C17_Amended ==
    /\ (Rejected(last.result) /\ last.now >= start) =>
          wait_time_from(last.result, start, last.now) <= last.n * limiter.t
    /\ pending # None =>
          Repeat(unwrap(pending), unwrap(pending).earliest).result.kind = "Ok"
    /\ last.repeat = Some(last.now) => last.result.kind = "Ok"

\* a rejected batch that has to wait for more than one interval
C17_Witness ==
    /\ last.result.kind = "BatchNonConforming"
    /\ last.now >= start
    /\ last.now > 0
    /\ wait_time_from(last.result, start, last.now) > limiter.t
    /\ wait_time_from(last.result, start, last.now) = last.n * limiter.t

\* a single cell that waits the full interval
C17_WitnessSingle ==
    /\ last.result.kind = "NotUntil"
    /\ last.now >= start
    /\ limiter.t > 1
    /\ wait_time_from(last.result, start, last.now) = limiter.t

\* the retry at the reported instant, admitted
C17_WitnessRetry ==
    /\ last.repeat = Some(last.now)
    /\ last.op = "test_and_update"
    /\ last.result.kind = "Ok"

====
